---- MODULE Spec2Model ----
(***************************************************************************)
(* A model of video_encoder.py: the VideoEncoder class (_find_ffmpeg,      *)
(* get_video_info, encode_to_h266), the interactive main() routine and the *)
(* __main__ guard.                                                         *)
(*                                                                         *)
(* Strings.  A Python str is a sequence of tokens.  Every character the    *)
(* code splits on, strips, parses or generates (the separators "/", ".",   *)
(* ",", "x", ";", the newline, white space, quotes, signs and digits) is a *)
(* token of its own; a run of characters the code only passes on           *)
(* ("ffmpeg", "-hwaccel", "128k") is one token.  Concatenation is \o.      *)
(* Paths are POSIX paths: the separator is "/" on both platforms.          *)
(***************************************************************************)
EXTENDS Integers, Sequences, FiniteSets, TLC

VARIABLES
    files,        \* the file system: the set of path strings that exist
    pc,           \* which routine runs: "idle", "encode", "main", "done"
    call,         \* the pending call of the routine under test
    result,       \* what that routine gave back: [kind, value]
    stub,         \* the child process an encode will launch
    epc,          \* encode_to_h266: its position
    eargs,        \* encode_to_h266: its arguments
    command,      \* encode_to_h266: the argument list
    output_path,  \* encode_to_h266: the local output_path (a path)
    proc,         \* the child: [state, script, returncode]
    outPipe,      \* chunks waiting in the child's stdout pipe
    errPipe,      \* lines waiting in the child's stderr pipe
    printed,      \* lines encode_to_h266 echoed to the console
    popenCalls,   \* subprocess.Popen calls made so far
    eres,         \* encode_to_h266: [kind, value] once it has ended
    mpc,          \* main: its position
    stdin,        \* the answers the user will still type
    m,            \* main: its locals
    top           \* the __main__ guard: what the session printed

vars == <<files, pc, call, result, stub, epc, eargs, command, output_path,
          proc, outPipe, errPipe, printed, popenCalls, eres, mpc, stdin, m, top>>

-----------------------------------------------------------------------------
(* Bounds of the model.                                                    *)

MaxExisting == 3
MaxScript == 3
PipeCap == 2
MaxCand == 3
MaxSegs == 3

-----------------------------------------------------------------------------
(* Python str operations, on token sequences.                              *)

Digits == <<"0", "1", "2", "3", "4", "5", "6", "7", "8", "9">>

WhiteSpace == {" ", "\n", "\t", "\r"}

Range(s) == {s[i] : i \in 1..Len(s)}

Last(s) == s[Len(s)]

Front(s) == SubSeq(s, 1, Len(s) - 1)

\* tok in s
Contains(s, tok) == tok \in Range(s)

\* s.strip(chars)
RECURSIVE LStripChars(_, _)
LStripChars(s, chars) ==
    IF s # <<>> /\ Head(s) \in chars THEN LStripChars(Tail(s), chars) ELSE s

RECURSIVE RStripChars(_, _)
RStripChars(s, chars) ==
    IF s # <<>> /\ Last(s) \in chars THEN RStripChars(Front(s), chars) ELSE s

StripChars(s, chars) == RStripChars(LStripChars(s, chars), chars)

\* s.strip()
Strip(s) == StripChars(s, WhiteSpace)

\* s.split(sep): always at least one piece
RECURSIVE SplitFrom(_, _, _)
SplitFrom(s, sep, cur) ==
    IF s = <<>> THEN <<cur>>
    ELSE IF Head(s) = sep THEN <<cur>> \o SplitFrom(Tail(s), sep, <<>>)
    ELSE SplitFrom(Tail(s), sep, Append(cur, Head(s)))

Split(s, sep) == SplitFrom(s, sep, <<>>)

\* sep.join(pieces)
RECURSIVE Join(_, _)
Join(pieces, sep) ==
    IF pieces = <<>> THEN <<>>
    ELSE IF Len(pieces) = 1 THEN pieces[1]
    ELSE pieces[1] \o <<sep>> \o Join(Tail(pieces), sep)

\* str(n) for an int
RECURSIVE NatStr(_)
NatStr(n) == IF n < 10 THEN <<Digits[n + 1]>>
             ELSE NatStr(n \div 10) \o <<Digits[(n % 10) + 1]>>

IntStr(n) == IF n < 0 THEN <<"-">> \o NatStr(0 - n) ELSE NatStr(n)

DigitVal(d) == CHOOSE k \in 0..9 : Digits[k + 1] = d

RECURSIVE NatVal(_)
NatVal(ds) == IF ds = <<>> THEN 0
              ELSE NatVal(Front(ds)) * 10 + DigitVal(Last(ds))

\* int(s): [ok |-> FALSE] stands for ValueError
ParseInt(s) ==
    LET t == Strip(s)
        signed == t # <<>> /\ Head(t) \in {"-", "+"}
        ds == IF signed THEN Tail(t) ELSE t
    IN  IF ds # <<>> /\ \A i \in 1..Len(ds) : ds[i] \in Range(Digits)
        THEN [ok |-> TRUE,
              val |-> IF signed /\ Head(t) = "-" THEN 0 - NatVal(ds) ELSE NatVal(ds)]
        ELSE [ok |-> FALSE, val |-> 0]

-----------------------------------------------------------------------------
(* pathlib.Path, POSIX flavour: [root, parts].                             *)

\* Path(s): empty and "." components are dropped
RECURSIVE KeepParts(_)
KeepParts(ps) ==
    IF ps = <<>> THEN <<>>
    ELSE IF Head(ps) = <<>> \/ Head(ps) = <<".">> THEN KeepParts(Tail(ps))
    ELSE <<Head(ps)>> \o KeepParts(Tail(ps))

PathOf(s) == [root |-> s # <<>> /\ Head(s) = "/", parts |-> KeepParts(Split(s, "/"))]

\* str(path)
PathStr(p) ==
    IF p.parts = <<>> THEN (IF p.root THEN <<"/">> ELSE <<".">>)
    ELSE (IF p.root THEN <<"/">> ELSE <<>>) \o Join(p.parts, "/")

\* path.name
PathName(p) == IF p.parts = <<>> THEN <<>> ELSE Last(p.parts)

\* name.rfind("."), 1-based, 0 when absent
RECURSIVE RFindDot(_)
RFindDot(name) ==
    IF name = <<>> THEN 0
    ELSE IF Last(name) = "." THEN Len(name)
    ELSE RFindDot(Front(name))

\* path.suffix
PathSuffix(p) ==
    LET name == PathName(p)
        i == RFindDot(name)
    IN  IF 1 < i /\ i < Len(name) THEN SubSeq(name, i, Len(name)) ELSE <<>>

\* path.stem
PathStem(p) ==
    LET name == PathName(p)
        i == RFindDot(name)
    IN  IF 1 < i /\ i < Len(name) THEN SubSeq(name, 1, i - 1) ELSE name

\* path.parent
PathParent(p) ==
    [root |-> p.root, parts |-> IF p.parts = <<>> THEN <<>> ELSE Front(p.parts)]

\* path / name
PathJoin(p, name) ==
    LET q == PathOf(name)
    IN  IF q.root THEN q ELSE [root |-> p.root, parts |-> p.parts \o q.parts]

\* a directory that cannot be searched: stat() of a path through it fails
\* with an OSError (PermissionError) that Path.exists() does not swallow
LockedDir == <<"locked">>

\* path.exists() answers; otherwise it raises
CanProbe(p) == \A i \in 1..Len(p.parts) : p.parts[i] # LockedDir

\* path.exists(), when it answers
Exists(fs, p) == PathStr(p) \in fs

-----------------------------------------------------------------------------
(* VideoEncoder._find_ffmpeg                                               *)

\* os.path.exists(s), s a string: the operating system resolves the name,
\* and every OSError means False
OsExists(fs, s) == CanProbe(PathOf(s)) /\ PathStr(PathOf(s)) \in fs

FfmpegExe == <<"ffmpeg", ".", "exe">>

\* common_paths; the Windows locations are names the code never takes apart
CommonPaths ==
    << <<"C:\\ffmpe\\ffmpeg-2024-10-21-git-baa23e40c1-full_build\\bin\\ffmpeg.exe">>,
       <<"C:\\ffmpeg\\ffmpeg-master-latest-win64-gpl\\bin\\ffmpeg.exe">>,
       <<"C:\\ffmpeg\\bin\\ffmpeg.exe">>,
       <<"C:\\Program Files\\ffmpeg\\bin\\ffmpeg.exe">>,
       <<"C:\\Program Files (x86)\\ffmpeg\\bin\\ffmpeg.exe">>,
       FfmpegExe,
       <<"/", "usr", "/", "bin", "/", "ffmpeg">>,
       <<"/", "usr", "/", "local", "/", "bin", "/", "ffmpeg">> >>

\* paths, from the lookup command's stdout
LookupPathsUnix(stdout) == <<Strip(stdout)>>

LookupPaths(osName, stdout) ==
    IF osName = "nt" THEN Split(Strip(stdout), "\n") ELSE LookupPathsUnix(stdout)

\* for path in paths: the first one that is not empty and exists
RECURSIVE FirstExistingPath(_, _)
FirstExistingPath(fs, paths) ==
    IF paths = <<>> THEN [found |-> FALSE, path |-> <<>>]
    ELSE LET path == Strip(Head(paths))
         IN  IF path # <<>> /\ OsExists(fs, path)
             THEN [found |-> TRUE, path |-> path]
             ELSE FirstExistingPath(fs, Tail(paths))

\* for dir_path in path_dirs: Path(dir_path.strip('"')) / "ffmpeg.exe"
RECURSIVE FirstInPathDirs(_, _)
FirstInPathDirs(fs, dirs) ==
    IF dirs = <<>> THEN [found |-> FALSE, path |-> <<>>]
    ELSE LET p == PathJoin(PathOf(StripChars(Head(dirs), {"\""})), FfmpegExe)
         IN  IF CanProbe(p) /\ Exists(fs, p) THEN [found |-> TRUE, path |-> PathStr(p)]
             ELSE FirstInPathDirs(fs, Tail(dirs))

\* for path in common_paths
RECURSIVE FirstCommonPath(_, _)
FirstCommonPath(fs, paths) ==
    IF paths = <<>> THEN [found |-> FALSE, path |-> <<>>]
    ELSE IF Exists(fs, PathOf(Head(paths)))
         THEN [found |-> TRUE, path |-> PathStr(PathOf(Head(paths)))]
         ELSE FirstCommonPath(fs, Tail(paths))

\* a variant that forgets the PATH directories
FindFallback_NoPathScan(fs, osName, pathEnv) ==
    LET common == FirstCommonPath(fs, CommonPaths)
    IN  IF common.found THEN [kind |-> "return", value |-> common.path]
        ELSE [kind |-> "raise", value |-> <<"FFmpegNotFoundError">>]

\* the fallback: PATH directories (Windows only), then common_paths
FindFallback(fs, osName, pathEnv) ==
    LET inDirs == IF osName = "nt"
                  THEN FirstInPathDirs(fs, Split(pathEnv, ";"))
                  ELSE [found |-> FALSE, path |-> <<>>]
        common == FirstCommonPath(fs, CommonPaths)
    IN  IF inDirs.found THEN [kind |-> "return", value |-> inDirs.path]
        ELSE IF common.found THEN [kind |-> "return", value |-> common.path]
        ELSE [kind |-> "raise", value |-> <<"FFmpegNotFoundError">>]

\* lookup: [status, stdout, ...], the outcome of `where ffmpeg` / `which ffmpeg`:
\* "ok", "fail" (CalledProcessError), "nocmd" (the lookup command is missing)
FindFfmpeg(fs, osName, lookup, pathEnv) ==
    IF lookup.status = "nocmd"
    THEN [kind |-> "raise", value |-> <<"FileNotFoundError">>]
    ELSE LET hit == IF lookup.status = "ok"
                    THEN FirstExistingPath(fs, LookupPaths(osName, lookup.stdout))
                    ELSE [found |-> FALSE, path |-> <<>>]
         IN  IF hit.found THEN [kind |-> "return", value |-> hit.path]
             ELSE FindFallback(fs, osName, pathEnv)

-----------------------------------------------------------------------------
(* VideoEncoder.get_video_info: the stream descriptor and the resolution.  *)
(* fps, bitrate and duration are scraped independently of these fields and *)
(* are left out.                                                           *)

StreamMarker == "Stream #0:0"

\* width, height = map(int, part.strip().split("x"))
ParsePair(part) ==
    LET pieces == Split(Strip(part), "x")
        ints == [i \in 1..Len(pieces) |-> ParseInt(pieces[i])]
    IN  IF Len(pieces) = 2 /\ ints[1].ok /\ ints[2].ok
        THEN [ok |-> TRUE, width |-> ints[1].val, height |-> ints[2].val]
        ELSE [ok |-> FALSE, width |-> 0, height |-> 0]

\* a variant that keeps the first pair it parsed
ResolutionStep_FirstWins(info, part) ==
    LET pair == ParsePair(part)
    IN  IF Contains(part, "x") /\ pair.ok /\ info.width = 0 /\ info.height = 0
        THEN [info EXCEPT !.width = pair.width, !.height = pair.height]
        ELSE info

\* one turn of `for part in video_stream.split(",")`
ResolutionStep(info, part) ==
    LET pair == ParsePair(part)
    IN  IF Contains(part, "x") /\ pair.ok
        THEN [info EXCEPT !.width = pair.width, !.height = pair.height]
        ELSE info

RECURSIVE ResolutionLoop(_, _)
ResolutionLoop(info, parts) ==
    IF parts = <<>> THEN info
    ELSE ResolutionLoop(ResolutionStep(info, Head(parts)), Tail(parts))

ParseResolution(info, video_stream) ==
    IF Contains(video_stream, "x")
    THEN ResolutionLoop(info, Split(video_stream, ","))
    ELSE info

NewVideoInfo == [video_stream |-> <<>>, width |-> 0, height |-> 0]

\* the try block, given the stderr of `ffmpeg -i <file>`
ScrapeInfo(stderr) ==
    IF Contains(stderr, StreamMarker)
    THEN LET video_stream == Split(Split(stderr, StreamMarker)[2], "\n")[1]
         IN  ParseResolution([NewVideoInfo EXCEPT !.video_stream = Strip(video_stream)],
                             video_stream)
    ELSE NewVideoInfo

\* run: [status, stderr], the outcome of subprocess.run: "ok" or "raise"
GetVideoInfo(fs, video_path, run) ==
    IF ~CanProbe(PathOf(video_path))
    THEN [kind |-> "raise", value |-> <<"PermissionError">>, info |-> NewVideoInfo]
    ELSE IF ~Exists(fs, PathOf(video_path))
    THEN [kind |-> "raise", value |-> <<"FileNotFoundError">>, info |-> NewVideoInfo]
    ELSE [kind |-> "return", value |-> <<>>,
          info |-> IF run.status = "ok" THEN ScrapeInfo(run.stderr) ELSE NewVideoInfo]

-----------------------------------------------------------------------------
(* VideoEncoder.encode_to_h266: the argument list and the output path.     *)

VALID_PRESETS == << <<"faster">>, <<"fast">>, <<"medium">>, <<"slow">>, <<"slower">> >>

\* a variant that puts the hardware-acceleration flags after the input
BuildCommand_HwaccelAfterInput(ffmpeg_path, input_path, qp, threads, preset, gpu) ==
    (IF gpu
     THEN <<ffmpeg_path, <<"-i">>, PathStr(input_path), <<"-hwaccel">>, <<"auto">> >>
     ELSE <<ffmpeg_path, <<"-i">>, PathStr(input_path)>>)
    \o << <<"-c:v">>, <<"libvvenc">>,
          <<"-qp">>, IntStr(qp),
          <<"-preset">>, preset,
          <<"-threads">>, IntStr(threads),
          <<"-c:a">>, <<"aac">>,
          <<"-b:a">>, <<"128k">> >>

\* command, before the output path is appended
BuildCommand(ffmpeg_path, input_path, qp, threads, preset, gpu) ==
    (IF gpu
     THEN <<ffmpeg_path, <<"-hwaccel">>, <<"auto">>, <<"-i">>, PathStr(input_path)>>
     ELSE <<ffmpeg_path, <<"-i">>, PathStr(input_path)>>)
    \o << <<"-c:v">>, <<"libvvenc">>,
          <<"-qp">>, IntStr(qp),
          <<"-preset">>, preset,
          <<"-threads">>, IntStr(threads),
          <<"-c:a">>, <<"aac">>,
          <<"-b:a">>, <<"128k">> >>

\* output_path.parent / f"{output_path.stem}_{index}{output_path.suffix}"
IndexedPath(out, index) ==
    PathJoin(PathParent(out), PathStem(out) \o <<"_">> \o IntStr(index) \o PathSuffix(out))

\* while True: ... index += 1
RECURSIVE ProbeIndex(_, _, _)
ProbeIndex(fs, out, index) ==
    IF ~Exists(fs, IndexedPath(out, index)) THEN IndexedPath(out, index)
    ELSE ProbeIndex(fs, out, index + 1)

\* a variant that tries the index 1 only
ResolveOutput_OnlyFirstIndex(fs, out) ==
    IF Exists(fs, out) THEN IndexedPath(out, 1) ELSE out

ResolveOutput(fs, out) ==
    IF Exists(fs, out) THEN ProbeIndex(fs, out, 1) ELSE out

\* line.decode(encoding) succeeds; a line is named by what decodes it
Encodings == <<"utf-8", "cp950", "big5">>

Decodes(line, encoding) ==
    \/ line \in {"utf8", "unprintable"}
    \/ line = "cp950" /\ encoding \in {"cp950", "big5"}
    \/ line = "big5" /\ encoding = "big5"

\* the body of the read loop for one line: what is printed, if anything.
\* print() of an "unprintable" line raises, which `except Exception` skips.
RECURSIVE TryDecode(_, _)
TryDecode(line, encs) ==
    IF encs = <<>> THEN <<>>
    ELSE IF Decodes(line, Head(encs))
         THEN (IF line = "unprintable" THEN <<>> ELSE <<Head(encs)>>)
         ELSE TryDecode(line, Tail(encs))

\* a variant that checks the preset before the input file
Validate_PresetFirst(fs, input_path, preset) ==
    IF preset \notin Range(VALID_PRESETS) THEN "ValueError"
    ELSE IF ~CanProbe(PathOf(input_path)) THEN "PermissionError"
    ELSE IF ~Exists(fs, PathOf(input_path)) THEN "FileNotFoundError"
    ELSE "ok"

\* lines 234-239: which exception, if any, the two checks raise
Validate(fs, input_path, preset) ==
    IF ~CanProbe(PathOf(input_path)) THEN "PermissionError"
    ELSE IF ~Exists(fs, PathOf(input_path)) THEN "FileNotFoundError"
    ELSE IF preset \notin Range(VALID_PRESETS) THEN "ValueError"
    ELSE "ok"

\* lines 306-311: the value returned once communicate() has given the exit code
ReturnValue(returncode) == returncode = <<0>>

\* lines 313-315: what the except clause does with an exception of the try block
OnTryException == [kind |-> "return", ret |-> FALSE, exc |-> "none"]

-----------------------------------------------------------------------------
(* The state machine.                                                      *)

NoProc == [state |-> "none", todo |-> <<>>, returncode |-> <<>>]

NoResult == [kind |-> "none", value |-> <<>>]

NoOutcome == [kind |-> "none", ret |-> FALSE, exc |-> "none"]

NoStub == [launch |-> "ok", readError |-> FALSE, script |-> <<>>, code |-> 0,
           writes |-> FALSE]

NoArgs == [ffmpeg_path |-> <<>>, input_path |-> <<>>, output_path |-> <<>>,
           qp |-> 0, threads |-> 0, preset |-> <<>>, gpu |-> FALSE]

NoPath == [root |-> FALSE, parts |-> <<>>]

NoLocals ==
    [ffmpeg_path |-> <<>>, input_video |-> <<>>, input_path |-> NoPath,
     output_path |-> NoPath, qp |-> 0, preset |-> <<>>, threads |-> 0,
     use_gpu |-> FALSE, info |-> NewVideoInfo, success |-> "unbound",
     inspected |-> <<>>, cancelled |-> FALSE, ret |-> "none", exc |-> "none"]

NoTop == [state |-> "none", explained |-> FALSE, hint |-> FALSE, traceback |-> FALSE]

encVars == <<epc, eargs, command, output_path, proc, outPipe, errPipe, printed,
             popenCalls, eres>>

mainVars == <<mpc, stdin, m, top>>

EncodeIdle ==
    /\ epc = "idle" /\ eargs = NoArgs /\ command = <<>> /\ output_path = NoPath
    /\ proc = NoProc /\ outPipe = 0 /\ errPipe = <<>> /\ printed = <<>>
    /\ popenCalls = 0 /\ eres = NoOutcome

MainIdle == mpc = "idle" /\ stdin = <<>> /\ m = NoLocals /\ top = NoTop

(* _find_ffmpeg, called on its own *)

DoFind ==
    /\ pc = "find"
    /\ result' = FindFfmpeg(files, call.osName, call.lookup, call.pathEnv)
    /\ pc' = "done"
    /\ UNCHANGED <<files, call, stub, encVars, mainVars>>

(* get_video_info, called on its own *)

DoInfo ==
    /\ pc = "info"
    /\ LET r == GetVideoInfo(files, call.video_path, call.run)
       IN  result' = [kind |-> r.kind, value |-> r.value, info |-> r.info]
    /\ pc' = "done"
    /\ UNCHANGED <<files, call, stub, encVars, mainVars>>

(* encode_to_h266 *)

\* the call ends: control goes back to main, or the call was the whole run
AfterEncode == IF call.fn = "main" THEN "main" ELSE "done"

\* lines 234-278
EncodeBegin ==
    /\ pc = "encode" /\ epc = "start"
    /\ LET v == Validate(files, eargs.input_path, eargs.preset)
           out == ResolveOutput(files, PathOf(eargs.output_path))
       IN  IF v # "ok"
           THEN /\ eres' = [kind |-> "raise", ret |-> FALSE, exc |-> v]
                /\ epc' = "done"
                /\ pc' = AfterEncode
                /\ UNCHANGED <<command, output_path>>
           ELSE IF ~CanProbe(PathOf(eargs.output_path))
           THEN \* line 267, outside the try block
                /\ eres' = [kind |-> "raise", ret |-> FALSE, exc |-> "PermissionError"]
                /\ epc' = "done"
                /\ pc' = AfterEncode
                /\ UNCHANGED <<command, output_path>>
           ELSE /\ command' = Append(BuildCommand(eargs.ffmpeg_path,
                                                  PathOf(eargs.input_path), eargs.qp,
                                                  eargs.threads, eargs.preset, eargs.gpu),
                                     PathStr(out))
                /\ output_path' = out
                /\ epc' = "popen"
                /\ UNCHANGED <<eres, pc>>
    /\ UNCHANGED <<files, call, result, stub, eargs, proc, outPipe, errPipe, printed,
                   popenCalls, mainVars>>

\* lines 281-285: subprocess.Popen(command, stdout=PIPE, stderr=PIPE)
EncodePopen ==
    /\ pc = "encode" /\ epc = "popen"
    /\ popenCalls' = popenCalls + 1
    /\ IF stub.launch = "throws"
       THEN /\ eres' = OnTryException
            /\ epc' = "done"
            /\ pc' = AfterEncode
            /\ UNCHANGED proc
       ELSE /\ proc' = [state |-> "running", todo |-> stub.script, returncode |-> <<>>]
            /\ epc' = "readline"
            /\ UNCHANGED <<eres, pc>>
    /\ UNCHANGED <<files, call, result, stub, eargs, command, output_path, outPipe,
                   errPipe, printed, mainVars>>

\* the child writes a chunk to its stdout: it waits while the pipe is full
ChildWriteOut ==
    /\ pc = "encode" /\ proc.state = "running"
    /\ proc.todo # <<>> /\ Head(proc.todo) = "out"
    /\ outPipe < PipeCap
    /\ outPipe' = outPipe + 1
    /\ proc' = [proc EXCEPT !.todo = Tail(@)]
    /\ UNCHANGED <<files, pc, call, result, stub, epc, eargs, command, output_path,
                   errPipe, printed, popenCalls, eres, mainVars>>

\* the child writes a line to its stderr: it waits while the pipe is full
ChildWriteErr ==
    /\ pc = "encode" /\ proc.state = "running"
    /\ proc.todo # <<>> /\ Head(proc.todo) # "out"
    /\ Len(errPipe) < PipeCap
    /\ errPipe' = Append(errPipe, Head(proc.todo))
    /\ proc' = [proc EXCEPT !.todo = Tail(@)]
    /\ UNCHANGED <<files, pc, call, result, stub, epc, eargs, command, output_path,
                   outPipe, printed, popenCalls, eres, mainVars>>

\* the child has written everything: it exits, which closes its pipes; a
\* child that did its work leaves the output file named by its last argument
ChildExit ==
    /\ pc = "encode" /\ proc.state = "running"
    /\ proc.todo = <<>>
    /\ proc' = [proc EXCEPT !.state = "exited"]
    /\ files' = IF stub.writes THEN files \cup {Last(command)} ELSE files
    /\ UNCHANGED <<pc, call, result, stub, epc, eargs, command, output_path, outPipe,
                   errPipe, printed, popenCalls, eres, mainVars>>

\* lines 287-302: one turn of the read loop; readline() waits while the pipe
\* is empty and the child still holds it open
EncodeReadLine ==
    /\ pc = "encode" /\ epc = "readline"
    /\ IF stub.readError
       THEN /\ eres' = OnTryException
            /\ epc' = "done"
            /\ pc' = AfterEncode
            /\ UNCHANGED <<errPipe, printed>>
       ELSE \/ /\ errPipe # <<>>
               /\ errPipe' = Tail(errPipe)
               /\ printed' = printed \o TryDecode(Head(errPipe), Encodings)
               /\ UNCHANGED <<eres, epc, pc>>
            \/ /\ errPipe = <<>> /\ proc.state = "exited"
               /\ epc' = "communicate"
               /\ UNCHANGED <<errPipe, printed, eres, pc>>
    /\ UNCHANGED <<files, call, result, stub, eargs, command, output_path, proc,
                   outPipe, popenCalls, mainVars>>

\* lines 304-311: communicate() reads what is left and waits for the exit
EncodeCommunicate ==
    /\ pc = "encode" /\ epc = "communicate"
    /\ proc.state = "exited"
    /\ outPipe' = 0
    /\ proc' = [proc EXCEPT !.returncode = <<stub.code>>]
    /\ eres' = [kind |-> "return", ret |-> ReturnValue(<<stub.code>>), exc |-> "none"]
    /\ epc' = "done"
    /\ pc' = AfterEncode
    /\ UNCHANGED <<files, call, result, stub, eargs, command, output_path, errPipe,
                   printed, popenCalls, mainVars>>

EncodeStep ==
    \/ EncodeBegin
    \/ EncodePopen
    \/ ChildWriteOut
    \/ ChildWriteErr
    \/ ChildExit
    \/ EncodeReadLine
    \/ EncodeCommunicate

-----------------------------------------------------------------------------
(* main() and the __main__ guard.                                          *)

\* cpu_cores = os.cpu_count() or 4; a count of 0 stands for None
CpuCores(count) == IF count = 0 THEN 4 ELSE count

\* s.lower(), for the letters of the answers
LowerTok(t) ==
    CASE t = "Y" -> "y" [] t = "N" -> "n" [] t = "O" -> "o" [] OTHER -> t

Lower(s) == [i \in 1..Len(s) |-> LowerTok(s[i])]

\* VideoEncoder(): lines 34-37 and 125-131; [kind, value]
\* encoders: "vvc", "novvc" or "raise", the outcome of check_ffmpeg_version
Construct(fs, osName, lookup, pathEnv, encoders) ==
    LET found == FindFfmpeg(fs, osName, lookup, pathEnv)
    IN  IF found.kind = "raise" THEN found
        ELSE IF encoders # "vvc"
             THEN [kind |-> "raise", value |-> <<"VVCNotSupportedError">>]
             ELSE found

\* line 342: input_path.parent / f"{input_path.stem}_h266{input_path.suffix}"
DefaultOutput(input_path) ==
    PathJoin(PathParent(input_path),
             PathStem(input_path) \o <<"_h266">> \o PathSuffix(input_path))

\* a variant that also catches a missing file
MainCatches_AlsoFileNotFound(exc) ==
    exc \in {"FFmpegNotFoundError", "VVCNotSupportedError", "FileNotFoundError"}

\* lines 452 and 463: the exceptions main() itself catches
MainCatches(exc) == exc \in {"FFmpegNotFoundError", "VVCNotSupportedError"}

\* an exception leaves the try block of main()
MainRaise(exc) ==
    /\ m' = [m EXCEPT !.exc = exc]
    /\ mpc' = "raised"

\* lines 319-330
MainConstruct ==
    /\ pc = "main" /\ mpc = "construct"
    /\ LET r == Construct(files, call.osName, call.lookup, call.pathEnv, call.encoders)
       IN  IF r.kind = "raise"
           THEN MainRaise(r.value[1])
           ELSE /\ m' = [m EXCEPT !.ffmpeg_path = r.value]
                /\ mpc' = "ask_input"
    /\ UNCHANGED <<files, pc, call, result, stub, encVars, stdin, top>>

\* lines 333-342: one turn of the input-path prompt
MainAskInput ==
    /\ pc = "main" /\ mpc = "ask_input"
    /\ IF stdin = <<>>
       THEN MainRaise("EOFError") /\ UNCHANGED stdin
       ELSE LET input_video == StripChars(StripChars(Head(stdin), {"\""}), {"'"})
                input_path == PathOf(input_video)
            IN  /\ stdin' = Tail(stdin)
                /\ IF ~CanProbe(input_path)
                   THEN MainRaise("PermissionError")
                   ELSE IF Exists(files, input_path)
                   THEN /\ m' = [m EXCEPT !.input_video = input_video,
                                          !.input_path = input_path,
                                          !.output_path = DefaultOutput(input_path)]
                        /\ mpc' = "ask_qp"
                   ELSE UNCHANGED <<m, mpc>>
    /\ UNCHANGED <<files, pc, call, result, stub, encVars, top>>

\* lines 345-352: one turn of the quality prompt
MainAskQp ==
    /\ pc = "main" /\ mpc = "ask_qp"
    /\ IF stdin = <<>>
       THEN MainRaise("EOFError") /\ UNCHANGED stdin
       ELSE LET qp == ParseInt(Strip(Head(stdin)))
            IN  /\ stdin' = Tail(stdin)
                /\ IF qp.ok /\ 20 <= qp.val /\ qp.val <= 50
                   THEN m' = [m EXCEPT !.qp = qp.val] /\ mpc' = "ask_preset"
                   ELSE UNCHANGED <<m, mpc>>
    /\ UNCHANGED <<files, pc, call, result, stub, encVars, top>>

\* lines 355-370: one turn of the preset prompt
MainAskPreset ==
    /\ pc = "main" /\ mpc = "ask_preset"
    /\ IF stdin = <<>>
       THEN MainRaise("EOFError") /\ UNCHANGED stdin
       ELSE LET preset_index == ParseInt(Strip(Head(stdin)))
            IN  /\ stdin' = Tail(stdin)
                /\ IF /\ preset_index.ok
                      /\ 1 <= preset_index.val
                      /\ preset_index.val <= Len(VALID_PRESETS)
                   THEN /\ m' = [m EXCEPT !.preset = VALID_PRESETS[preset_index.val]]
                        /\ mpc' = "ask_threads"
                   ELSE UNCHANGED <<m, mpc>>
    /\ UNCHANGED <<files, pc, call, result, stub, encVars, top>>

\* lines 373-380: one turn of the thread-count prompt
MainAskThreads ==
    /\ pc = "main" /\ mpc = "ask_threads"
    /\ IF stdin = <<>>
       THEN MainRaise("EOFError") /\ UNCHANGED stdin
       ELSE LET threads == ParseInt(Strip(Head(stdin)))
            IN  /\ stdin' = Tail(stdin)
                /\ IF /\ threads.ok
                      /\ 1 <= threads.val
                      /\ threads.val <= CpuCores(call.cpu_count)
                   THEN m' = [m EXCEPT !.threads = threads.val] /\ mpc' = "ask_gpu"
                   ELSE UNCHANGED <<m, mpc>>
    /\ UNCHANGED <<files, pc, call, result, stub, encVars, top>>

\* lines 383-386: the GPU prompt; any exception of input() means no
MainAskGpu ==
    /\ pc = "main" /\ mpc = "ask_gpu"
    /\ IF stdin = <<>>
       THEN m' = [m EXCEPT !.use_gpu = FALSE] /\ UNCHANGED stdin
       ELSE /\ m' = [m EXCEPT !.use_gpu = (Lower(Strip(Head(stdin))) = <<"y">>)]
            /\ stdin' = Tail(stdin)
    /\ mpc' = "info"
    /\ UNCHANGED <<files, pc, call, result, stub, encVars, top>>

\* lines 389-410
MainInfo ==
    /\ pc = "main" /\ mpc = "info"
    /\ LET r == GetVideoInfo(files, m.input_video, call.run)
       IN  IF r.kind = "raise"
           THEN MainRaise(r.value[1])
           ELSE m' = [m EXCEPT !.info = r.info] /\ mpc' = "confirm"
    /\ UNCHANGED <<files, pc, call, result, stub, encVars, stdin, top>>

\* lines 413-425, or 447-450 when the user says no: `return success` then
\* reads a local that was never bound
MainConfirm ==
    /\ pc = "main" /\ mpc = "confirm"
    /\ IF stdin = <<>>
       THEN MainRaise("EOFError") /\ UNCHANGED <<stdin, pc, epc, eargs>>
       ELSE /\ stdin' = Tail(stdin)
            /\ IF Lower(Strip(Head(stdin))) \notin { <<"n">>, <<"n", "o">> }
               THEN /\ eargs' = [ffmpeg_path |-> m.ffmpeg_path,
                                 input_path |-> m.input_video,
                                 output_path |-> PathStr(m.output_path),
                                 qp |-> m.qp, threads |-> m.threads,
                                 preset |-> m.preset, gpu |-> m.use_gpu]
                    /\ epc' = "start"
                    /\ pc' = "encode"
                    /\ mpc' = "encoding"
                    /\ UNCHANGED m
               ELSE /\ m' = [m EXCEPT !.cancelled = TRUE, !.exc = "UnboundLocalError"]
                    /\ mpc' = "raised"
                    /\ UNCHANGED <<pc, epc, eargs>>
    /\ UNCHANGED <<files, call, result, stub, command, output_path, proc, outPipe,
                   errPipe, printed, popenCalls, eres, top>>

\* lines 418 and 427-450, once encode_to_h266 has ended
MainAfterEncode ==
    /\ pc = "main" /\ mpc = "encoding"
    /\ IF eres.kind = "raise"
       THEN MainRaise(eres.exc)
       ELSE IF eres.ret
            THEN LET inspected == PathStr(m.output_path)
                     r == GetVideoInfo(files, inspected, call.run)
                 IN  IF r.kind = "raise"
                     THEN /\ m' = [m EXCEPT !.success = "True", !.exc = r.value[1]]
                          /\ mpc' = "raised"
                     ELSE /\ m' = [m EXCEPT !.success = "True", !.inspected = inspected,
                                            !.ret = "True"]
                          /\ mpc' = "returned"
            ELSE /\ m' = [m EXCEPT !.success = "False", !.ret = "False"]
                 /\ mpc' = "returned"
    /\ UNCHANGED <<files, pc, call, result, stub, encVars, stdin, top>>

\* lines 452-466: the except clauses of main()
MainExcept ==
    /\ pc = "main" /\ mpc = "raised"
    /\ IF MainCatches(m.exc)
       THEN /\ top' = [top EXCEPT !.explained = TRUE, !.hint = TRUE]
            /\ m' = [m EXCEPT !.ret = "False"]
            /\ mpc' = "returned"
       ELSE /\ mpc' = "propagated"
            /\ UNCHANGED <<m, top>>
    /\ UNCHANGED <<files, pc, call, result, stub, encVars, stdin>>

\* lines 468-475: the __main__ guard; every exception of the model is an
\* Exception, which is printed and then logged with its traceback
TopLevel ==
    /\ pc = "main" /\ mpc \in {"returned", "propagated"}
    /\ top' = IF mpc = "returned"
              THEN [top EXCEPT !.state = "returned"]
              ELSE [top EXCEPT !.state = "handled", !.explained = TRUE,
                               !.traceback = TRUE]
    /\ mpc' = "exit"
    /\ pc' = "done"
    /\ UNCHANGED <<files, call, result, stub, encVars, stdin, m>>

MainStep ==
    \/ MainConstruct
    \/ MainAskInput
    \/ MainAskQp
    \/ MainAskPreset
    \/ MainAskThreads
    \/ MainAskGpu
    \/ MainInfo
    \/ MainConfirm
    \/ MainAfterEncode
    \/ MainExcept
    \/ TopLevel

-----------------------------------------------------------------------------
(* The cases each routine is run on.                                       *)

SeqsUpTo(S, n) == UNION {[1..k -> S] : k \in 0..n}

InstalledFfmpeg == <<"/", "usr", "/", "bin", "/", "ffmpeg">>

(* _find_ffmpeg *)

CandidatePaths ==
    { <<"/", "a", "/", "ffmpeg">>, <<"/", "b", "/", "ffmpeg">>, <<"/", "c", "/", "ffmpeg">> }

\* the lookup command prints one path per line
LookupStdout(cands) == Join(cands, "\n") \o <<"\n">>

Lookups ==
    {[status |-> "ok", stdout |-> LookupStdout(cands), cands |-> cands] :
        cands \in SeqsUpTo(CandidatePaths, MaxCand) \ {<<>>}}
    \cup {[status |-> "fail", stdout |-> <<>>, cands |-> <<>>],
          [status |-> "nocmd", stdout |-> <<>>, cands |-> <<>>]}

PathEnvs == { <<>>, <<"w1", ";", "\"", "w2", "\"">> }

FindFiles ==
    CandidatePaths \cup { <<"w2", "/", "ffmpeg", ".", "exe">>, FfmpegExe, InstalledFfmpeg }

InitFind ==
    /\ pc = "find"
    /\ files \in SUBSET FindFiles
    /\ call \in {[fn |-> "find", osName |-> o, lookup |-> l, pathEnv |-> e] :
                    o \in {"nt", "posix"}, l \in Lookups, e \in PathEnvs}
    /\ result = NoResult
    /\ stub = NoStub
    /\ EncodeIdle
    /\ MainIdle

NextFind == DoFind

SpecFind == InitFind /\ [][NextFind]_vars

(* get_video_info *)

Segments ==
    { <<" ", "1", "2", "x", "3", "4">>,
      <<" ", "5", "x", "6">>,
      <<" ", "yuv420p">>,
      <<" ", "7", "x", "8", " ", "[SAR]">>,
      <<" ", "0", "x", "3", "1", ")">>,
      <<"1", "x", "2", "x", "3">>,
      <<"x">>,
      <<"-", "1", "x", "+", "2">> }

RECURSIVE CommaEach(_)
CommaEach(segs) ==
    IF segs = <<>> THEN <<>> ELSE <<",">> \o Head(segs) \o CommaEach(Tail(segs))

\* what `ffmpeg -i` prints for a file whose video stream has these segments
InfoStderr(segs) ==
    <<"Input #0", "\n", " ", " ", StreamMarker, "(und):", " ", "Video:", " ", "h264">>
    \o CommaEach(segs)
    \o <<"\n", " ", " ", "Stream #0:1", "(und):", " ", "Audio:", " ", "aac", "\n">>

InfoRuns ==
    {[status |-> "ok", stderr |-> InfoStderr(segs), segs |-> segs] :
        segs \in SeqsUpTo(Segments, MaxSegs)}
    \cup {[status |-> "ok", stderr |-> <<"no", " ", "such", " ", "stream", "\n">>,
           segs |-> <<>>],
          [status |-> "raise", stderr |-> <<>>, segs |-> <<>>]}

SampleMov == <<"sample", ".", "mov">>

InitInfo ==
    /\ pc = "info"
    /\ files = {SampleMov}
    /\ call \in {[fn |-> "info", video_path |-> v, run |-> r] :
                    v \in {SampleMov, <<".", "/", "sample", ".", "mov">>,
                           <<"missing", ".", "mov">>},
                    r \in InfoRuns}
    /\ result = NoResult
    /\ stub = NoStub
    /\ EncodeIdle
    /\ MainIdle

NextInfo == DoInfo

SpecInfo == InitInfo /\ [][NextInfo]_vars

(* encode_to_h266 *)

InputPaths ==
    { <<".", "/", "sample", ".", "mov">>, <<"missing", ".", "mov">>,
      <<"locked", "/", "sample", ".", "mov">> }

\* the requested output, with the directory and the name it lies in
OutputCases ==
    { [path |-> <<"out", ".", "mp4">>, dir |-> <<>>, stem |-> <<"out">>,
       suffix |-> <<".", "mp4">>],
      [path |-> <<".", "/", "out", ".", "mp4">>, dir |-> <<>>, stem |-> <<"out">>,
       suffix |-> <<".", "mp4">>],
      [path |-> <<"d", "/", "/", "out", ".", "mp4">>, dir |-> <<"d", "/">>,
       stem |-> <<"out">>, suffix |-> <<".", "mp4">>],
      [path |-> <<"out">>, dir |-> <<>>, stem |-> <<"out">>, suffix |-> <<>>],
      [path |-> <<"locked", "/", "out", ".", "mp4">>, dir |-> <<"locked", "/">>,
       stem |-> <<"out">>, suffix |-> <<".", "mp4">>] }

\* the files of a directory where the output and some numbered outputs exist
OutputFiles(c, base, idx) ==
    (IF base THEN {c.dir \o c.stem \o c.suffix} ELSE {})
    \cup {c.dir \o c.stem \o <<"_">> \o IntStr(k) \o c.suffix : k \in idx}

\* a numbered output of another directory, which must not count
Decoy(c) ==
    IF c.dir = <<>> THEN <<"d", "/", "out", "_", "1", ".", "mp4">>
    ELSE <<"out", "_", "1", ".", "mp4">>

Presets == Range(VALID_PRESETS) \cup { <<"ultra">> }

Numbers == { [qp |-> 32, threads |-> 4], [qp |-> 0 - 1, threads |-> 16] }

SimpleStubs ==
    { [launch |-> "throws", readError |-> FALSE, script |-> <<>>, code |-> 0,
       writes |-> FALSE],
      [launch |-> "ok", readError |-> TRUE, script |-> <<>>, code |-> 0,
       writes |-> FALSE] }
    \cup {[launch |-> "ok", readError |-> FALSE, script |-> sc, code |-> code,
           writes |-> (code = 0)] :
             sc \in { <<>>, <<"utf8", "out", "cp950">> }, code \in {0, 1}}

EncodeStart(args) ==
    /\ epc = "start" /\ eargs = args /\ command = <<>> /\ output_path = NoPath
    /\ proc = NoProc /\ outPipe = 0 /\ errPipe = <<>> /\ printed = <<>>
    /\ popenCalls = 0 /\ eres = NoOutcome

InitEncode ==
    /\ pc = "encode"
    /\ call \in {[fn |-> "encode", out |-> c] : c \in OutputCases}
    /\ \E base \in BOOLEAN, idx \in SUBSET (1..MaxExisting) :
          files = {SampleMov, Decoy(call.out)} \cup OutputFiles(call.out, base, idx)
    /\ \E i \in InputPaths, p \in Presets, n \in Numbers, g \in BOOLEAN :
          EncodeStart([ffmpeg_path |-> InstalledFfmpeg, input_path |-> i,
                       output_path |-> call.out.path, qp |-> n.qp,
                       threads |-> n.threads, preset |-> p, gpu |-> g])
    /\ result = NoResult
    /\ stub \in SimpleStubs
    /\ MainIdle

NextEncode == EncodeStep

SpecEncode == InitEncode /\ [][NextEncode]_vars

(* encode_to_h266 and a child that writes to both of its pipes *)

Ops == {"out", "utf8", "cp950", "big5", "bad", "unprintable"}

InitPipe ==
    /\ pc = "encode"
    /\ call = [fn |-> "encode", out |-> CHOOSE c \in OutputCases : c.path = <<"out", ".", "mp4">>]
    /\ files = {SampleMov}
    /\ EncodeStart([ffmpeg_path |-> InstalledFfmpeg, input_path |-> SampleMov,
                    output_path |-> call.out.path, qp |-> 32, threads |-> 4,
                    preset |-> <<"medium">>, gpu |-> FALSE])
    /\ result = NoResult
    /\ stub \in {[launch |-> "ok", readError |-> FALSE, script |-> sc, code |-> code,
                  writes |-> (code = 0)] :
                    sc \in SeqsUpTo(Ops, MaxScript), code \in {0, 1}}
    /\ MainIdle

SpecPipe == InitPipe /\ [][NextEncode]_vars

(* main() *)

Quoted(str) == <<"\"">> \o str \o <<"\"">>

InputAnswers == { <<SampleMov>>, << <<"missing", ".", "mov">>, Quoted(SampleMov) >> }

QpAnswers == { << <<"3", "2">> >>, << <<"abc">>, <<"1", "9">>, <<" ", "2", "0">> >> }

PresetAnswers == { << <<"3">> >>, << <<"6">>, <<"1">> >> }

ThreadAnswers == { << <<"4">> >>, << <<"0">>, <<"5">>, <<"1">> >> }

GpuAnswers == { << <<"Y">> >>, << <<>> >> }

ConfirmAnswers == { << <<>> >>, << <<"N", "O">> >>, << <<" ", "n">> >> }

AnswerScripts ==
    {a \o q \o p \o t \o g \o c :
        a \in InputAnswers, q \in QpAnswers, p \in PresetAnswers,
        t \in ThreadAnswers, g \in GpuAnswers, c \in ConfirmAnswers}

\* the user stops typing: input() then raises EOFError
CutShort ==
    LET full == <<SampleMov, <<"3", "2">>, <<"3">>, <<"4">>, <<"Y">>, <<>> >>
    IN  {SubSeq(full, 1, k) : k \in 0..(Len(full) - 1)}
        \cup { << <<"locked", "/", "sample", ".", "mov">> >> }

DefaultOut == <<"sample", "_h266", ".", "mov">>

DefaultOut1 == <<"sample", "_h266", "_", "1", ".", "mov">>

WhichFinds == [status |-> "ok", stdout |-> LookupStdout(<<InstalledFfmpeg>>),
               cands |-> <<InstalledFfmpeg>>]

MainEnv(lookup, encoders, count) ==
    [fn |-> "main", osName |-> "posix", lookup |-> lookup, pathEnv |-> <<>>,
     encoders |-> encoders, cpu_count |-> count,
     run |-> [status |-> "ok", stderr |-> InfoStderr(<< <<" ", "1", "2", "x", "3", "4">> >>),
              segs |-> <<>>]]

MainStubs ==
    { [launch |-> "throws", readError |-> FALSE, script |-> <<>>, code |-> 0,
       writes |-> FALSE] }
    \cup {[launch |-> "ok", readError |-> FALSE, script |-> <<"utf8", "out">>,
           code |-> code, writes |-> w] : code \in {0, 1}, w \in BOOLEAN}

InitMain ==
    /\ pc = "main"
    /\ mpc = "construct" /\ m = NoLocals /\ top = NoTop
    /\ result = NoResult
    /\ EncodeIdle
    /\ \/ \* the session cannot start
          /\ \E lookup \in {WhichFinds, [status |-> "fail", stdout |-> <<>>, cands |-> <<>>],
                            [status |-> "nocmd", stdout |-> <<>>, cands |-> <<>>]},
                encoders \in {"novvc", "raise"} :
                /\ call = MainEnv(lookup, encoders, 0)
                /\ files = {SampleMov} \cup (IF lookup = WhichFinds THEN {InstalledFfmpeg}
                                                                    ELSE {})
          /\ stdin \in CutShort
          /\ stub \in MainStubs
       \/ \* the session starts
          /\ call \in {MainEnv(WhichFinds, "vvc", count) : count \in {0, 6}}
          /\ files \in {{SampleMov, InstalledFfmpeg} \cup old : old \in SUBSET {DefaultOut, DefaultOut1}}
          /\ stdin \in AnswerScripts \cup CutShort
          /\ stub \in MainStubs

NextMain == MainStep \/ EncodeStep

SpecMain == InitMain /\ [][NextMain]_vars

-----------------------------------------------------------------------------
(* Properties of encode_to_h266.                                           *)

\* the file the requested output path names, and its numbered neighbours
C1Requested == call.out.dir \o call.out.stem \o call.out.suffix

C1Numbered(k) == call.out.dir \o call.out.stem \o <<"_", Digits[k + 1]>> \o call.out.suffix

\* the output path has been chosen and no file has been written since
C1Chosen == call.fn = "encode" /\ pc = "encode" /\ epc = "popen"

\* the requested path exists: the last argument is <stem>_<k><suffix> in the
\* same directory for the least k >= 1 that names no file; and in every case
\* the last argument names no file that exists
C1Collision ==
    /\ C1Requested \in files =>
          \E k \in 1..(MaxExisting + 1) :
             /\ Last(command) = C1Numbered(k)
             /\ C1Numbered(k) \notin files
             /\ \A j \in 1..(k - 1) : C1Numbered(j) \in files
    /\ Last(command) \notin files

\* C1 as stated: when the requested output path does not exist the last
\* argument is that path unchanged; when it exists the indexed path is used
C1_AsStated ==
    C1Chosen =>
        /\ C1Requested \notin files => Last(command) = eargs.output_path
        /\ C1Collision

\* C1, amended: when the requested output path does not exist the last
\* argument is that path as pathlib renders it (no "./", no doubled
\* separator), which names the same file; when it exists the last argument
\* is <stem>_<k><suffix> in the same directory for the least k >= 1 that
\* names no file; the chosen path never names an existing file
C1_OutputPathChosen ==
    C1Chosen =>
        /\ C1Requested \notin files => Last(command) = C1Requested
        /\ C1Collision

\* out.mp4 and out_1.mp4 exist and out_2.mp4 is chosen
C1_Witness ==
    /\ C1Chosen
    /\ eargs.output_path = <<"out", ".", "mp4">>
    /\ {<<"out", ".", "mp4">>, <<"out", "_", "1", ".", "mp4">>} \subseteq files
    /\ Last(command) = <<"out", "_", "2", ".", "mp4">>

C2InputPresent == eargs.input_path = <<".", "/", "sample", ".", "mov">>

C2InputAbsent == eargs.input_path = <<"missing", ".", "mov">>

C2PresetValid ==
    eargs.preset \in { <<"faster">>, <<"fast">>, <<"medium">>, <<"slow">>, <<"slower">> }

C3_ReturnsNeverRaises ==
    (call.fn = "encode" /\ epc = "done" /\ C2InputPresent /\ C2PresetValid) =>
        /\ eres.kind = "return"
        /\ eres.ret <=> (proc.state # "none" /\ proc.returncode = <<0>>)
        /\ eres.ret <=> (stub.launch = "ok" /\ ~stub.readError /\ stub.code = 0)

C4Decimal(n) ==
    CASE n = 32 -> <<"3", "2">>
      [] n = 4 -> <<"4">>
      [] n = 16 -> <<"1", "6">>
      [] n = 0 - 1 -> <<"-", "1">>

\* C4: the argument list is the executable, -hwaccel auto only when gpu is
\* set, -i <input>, -c:v libvvenc, -qp, -preset, -threads, -c:a aac,
\* -b:a 128k and last the resolved output path; the hardware-acceleration
\* flags are absent without gpu and come before -i with it
C4_ArgumentList ==
    (call.fn = "encode" /\ command # <<>>) =>
        /\ command =
              <<InstalledFfmpeg>>
              \o (IF eargs.gpu THEN << <<"-hwaccel">>, <<"auto">> >> ELSE <<>>)
              \o << <<"-i">>, <<"sample", ".", "mov">>,
                    <<"-c:v">>, <<"libvvenc">>,
                    <<"-qp">>, C4Decimal(eargs.qp),
                    <<"-preset">>, eargs.preset,
                    <<"-threads">>, C4Decimal(eargs.threads),
                    <<"-c:a">>, <<"aac">>,
                    <<"-b:a">>, <<"128k">>,
                    PathStr(output_path) >>
        /\ ~eargs.gpu => \A i \in 1..Len(command) : command[i] # <<"-hwaccel">>
        /\ eargs.gpu => \E i, j \in 1..Len(command) :
                            i < j /\ command[i] = <<"-hwaccel">> /\ command[j] = <<"-i">>

\* a child was launched with the hardware-acceleration flags
C4_Witness ==
    /\ call.fn = "encode" /\ popenCalls = 1 /\ eargs.gpu
    /\ command[2] = <<"-hwaccel">>

\* C10: parent and child never wait on each other: the parent in readline()
\* on an empty stderr pipe while the child waits to write to a full stdout pipe
C10_NoMutualWait ==
    ~ /\ pc = "encode" /\ epc = "readline"
      /\ errPipe = <<>>
      /\ proc.state = "running"
      /\ proc.todo # <<>> /\ Head(proc.todo) = "out"
      /\ outPipe = PipeCap

-----------------------------------------------------------------------------
(* Properties of _find_ffmpeg.                                             *)

C5Found(cands) == \E i \in 1..Len(cands) : cands[i] \in files

C5First(cands) ==
    cands[CHOOSE i \in 1..Len(cands) :
            cands[i] \in files /\ \A j \in 1..(i - 1) : cands[j] \notin files]

C5PathDirHit ==
    IF call.pathEnv = <<>> THEN FfmpegExe \in files
    ELSE <<"w2", "/", "ffmpeg", ".", "exe">> \in files

C5CommonHit == FfmpegExe \in files \/ InstalledFfmpeg \in files

C5LookupDone == call.fn = "find" /\ pc = "done" /\ call.lookup.status = "ok"

\* C5 as stated: on both platforms the first listed candidate that exists is
\* returned, and FFmpegNotFoundError means that no candidate, no PATH
\* directory and no hardcoded path has the executable
C5_AsStated ==
    C5LookupDone =>
        /\ C5Found(call.lookup.cands) =>
              result = [kind |-> "return", value |-> C5First(call.lookup.cands)]
        /\ result.kind = "raise" =>
              /\ result.value = <<"FFmpegNotFoundError">>
              /\ ~C5Found(call.lookup.cands)
              /\ ~C5PathDirHit
              /\ ~C5CommonHit

\* the candidates as the platform's branch reads them: every line on Windows,
\* the whole output as one path elsewhere
C5Read ==
    IF call.osName = "nt" \/ Len(call.lookup.cands) = 1 THEN call.lookup.cands ELSE <<>>

\* C5, amended: on Windows the first listed candidate that exists is
\* returned; elsewhere the output is one path, so the same holds for N = 1;
\* FFmpegNotFoundError means that no candidate so read exists, no hardcoded
\* path exists and, on Windows, no PATH directory has ffmpeg.exe
C5_FirstExistingAsRead ==
    C5LookupDone =>
        /\ C5Found(C5Read) => result = [kind |-> "return", value |-> C5First(C5Read)]
        /\ result.kind = "raise" =>
              /\ result.value = <<"FFmpegNotFoundError">>
              /\ ~C5Found(C5Read)
              /\ call.osName = "nt" => ~C5PathDirHit
              /\ ~C5CommonHit

\* Windows, the first candidate is missing and the second is returned
C5_Witness ==
    /\ C5LookupDone /\ call.osName = "nt"
    /\ Len(call.lookup.cands) >= 2
    /\ call.lookup.cands[1] \notin files
    /\ call.lookup.cands[2] \in files
    /\ result = [kind |-> "return", value |-> call.lookup.cands[2]]

-----------------------------------------------------------------------------
(* Properties of get_video_info.                                           *)

\* the segments of the cases that are an integer pair, by hand
C8Value(seg) ==
    CASE seg = <<" ", "1", "2", "x", "3", "4">> -> <<12, 34>>
      [] seg = <<" ", "5", "x", "6">> -> <<5, 6>>
      [] seg = <<"-", "1", "x", "+", "2">> -> <<0 - 1, 2>>
      [] OTHER -> <<>>

C8IsPair(seg) == C8Value(seg) # <<>>

C8Pairs == SelectSeq(call.run.segs, C8IsPair)

C8Scraped ==
    /\ call.fn = "info" /\ pc = "done"
    /\ result.kind = "return" /\ call.run.status = "ok"

\* C8 as stated: width and height are those of the first segment that
\* parses as a pair
C8_AsStated ==
    (C8Scraped /\ C8Pairs # <<>>) =>
        <<result.info.width, result.info.height>> = C8Value(Head(C8Pairs))

\* C8, amended: width and height are those of the last segment that parses
\* as a pair, each later pair overwriting the earlier one; segments that do
\* not parse leave the fields as they are, 0 and 0 when none parses
C8_LastPairWins ==
    C8Scraped =>
        <<result.info.width, result.info.height>> =
            IF C8Pairs = <<>> THEN <<0, 0>> ELSE C8Value(Last(C8Pairs))

\* two different pairs, then a segment that does not parse
C8_Witness ==
    /\ C8Scraped
    /\ Len(C8Pairs) >= 2
    /\ C8Value(Head(C8Pairs)) # C8Value(Last(C8Pairs))
    /\ ~C8IsPair(Last(call.run.segs))
    /\ <<result.info.width, result.info.height>> = C8Value(Last(C8Pairs))

-----------------------------------------------------------------------------
(* Properties of main() and the __main__ guard.                            *)

C6Ended == call.fn = "main" /\ top.state # "none"

\* C6 as stated: each of the four error kinds ends the run with an
\* explanation and a remediation hint and without a traceback
C6_AsStated ==
    (C6Ended /\ m.exc \in {"FFmpegNotFoundError", "VVCNotSupportedError",
                           "FileNotFoundError", "ValueError"}) =>
        top.explained /\ top.hint /\ ~top.traceback

\* C6, amended: FFmpegNotFoundError and VVCNotSupportedError are caught by
\* main(), which prints the explanation and a remediation hint and returns
\* false, without a traceback; a FileNotFoundError, like every other
\* exception (a ValueError too), leaves main() and the __main__ guard prints
\* its message, without a hint, and logs its traceback
C6_TwoKindsOfHandling ==
    C6Ended =>
        /\ m.exc \in {"FFmpegNotFoundError", "VVCNotSupportedError"} =>
              /\ top.state = "returned" /\ m.ret = "False"
              /\ top.explained /\ top.hint /\ ~top.traceback
        /\ m.exc \notin {"FFmpegNotFoundError", "VVCNotSupportedError", "none"} =>
              /\ top.state = "handled" /\ m.ret = "none"
              /\ top.explained /\ ~top.hint /\ top.traceback

\* a FileNotFoundError reached the __main__ guard
C6_Witness ==
    /\ C6Ended /\ m.exc = "FileNotFoundError"
    /\ top.state = "handled" /\ top.traceback

\* C7: a run that no component error and no end of input aborted ends with
\* main() returning a value; so does a run the user cancelled at the
\* confirmation prompt
C7_MainReturnsValue ==
    (C6Ended /\ m.exc \notin {"FFmpegNotFoundError", "VVCNotSupportedError",
                              "FileNotFoundError", "ValueError", "EOFError"}) =>
        top.state = "returned" /\ m.ret \in {"True", "False"}

\* C9: the path main() inspects after a successful transcode is the output
\* path the child was given
C9_InspectsWrittenFile ==
    (call.fn = "main" /\ m.inspected # <<>>) => m.inspected = Last(command)

====
